---- MODULE Spec2Model ----
(***************************************************************************)
(* Model of archai/nas/evaluater.py: class Evaluater.                      *)
(*                                                                         *)
(* Python strings that the code inspects (model_factory_spec, dataset and  *)
(* function names, module names) are sequences of one-character strings,   *)
(* so that rsplit and startswith are computed and not assumed.  File names *)
(* are only passed on and tested for truthiness; they are atomic strings.  *)
(***************************************************************************)
EXTENDS Naturals, Sequences, FiniteSets, TLC

VARIABLES
    pc,                  \* position inside the running call ("idle" between calls)
    entry,               \* the method the caller invoked
    conf_eval,           \* the Config passed to evaluate / create_model
    final_desc_filename, \* create_model's parameter, then local (lines 86, 92)
    full_desc_filename,  \* create_model's parameter, then local (lines 86, 93)
    model_factory_spec,  \* model_from_factory's parameter (line 120)
    dataset_name,        \* create_model's local / model_from_factory's parameter
    splitted,            \* line 121
    function_name,       \* line 122
    module_name,         \* lines 125, 127
    module,              \* line 129
    function,            \* line 130
    template_model_desc, \* line 102
    model_desc,          \* line 103
    model,               \* lines 40, 109, 131
    data_loaders,        \* line 63: which of train_dl, test_dl are not None
    train_metrics,       \* lines 43, 67
    env,                 \* what the interpreter finds: module importable, attribute present
    files,               \* architecture-description files on disk
    calls,               \* the calls and configuration reads made so far, in order
    raised,              \* the exception propagating out of the call
    result               \* the value returned to the caller

vars == <<pc, entry, conf_eval, final_desc_filename, full_desc_filename,
          model_factory_spec, dataset_name, splitted, function_name, module_name,
          module, function, template_model_desc, model_desc, model, data_loaders,
          train_metrics, env, files, calls, raised, result>>

----------------------------------------------------------------------------
(* Bounds of the model.                                                    *)

\* longest suffix appended to a name stem ("cifar" -> "cifar1", "cifarx", ...)
MaxSuffixLen == 1
\* number of distinct architecture descriptions the builder can return
MaxDescs == 2

----------------------------------------------------------------------------
(* Python values.                                                          *)

None == "<None>"
EmptyStr == <<>>
NoException == [type |-> "", cause |-> ""]

\* bool(x) of an optional file name: None and '' are falsy
Truthy(x) == x # None /\ x # ""

\* str.startswith
StartsWith(s, prefix) ==
    /\ Len(s) >= Len(prefix)
    /\ SubSeq(s, 1, Len(prefix)) = prefix

\* index of the last '.' of s, 0 when there is none
LastDot(s) ==
    IF \E i \in 1..Len(s) : s[i] = "."
    THEN CHOOSE i \in 1..Len(s) : s[i] = "." /\ \A j \in (i+1)..Len(s) : s[j] # "."
    ELSE 0

FirstDot(s) ==
    IF \E i \in 1..Len(s) : s[i] = "."
    THEN CHOOSE i \in 1..Len(s) : s[i] = "." /\ \A j \in 1..(i-1) : s[j] # "."
    ELSE 0

SplitAt(s, i) ==
    IF i = 0 THEN <<s>> ELSE <<SubSeq(s, 1, i - 1), SubSeq(s, i + 1, Len(s))>>

\* a split at the first '.' instead of the last one
rsplit_first(s) == SplitAt(s, FirstDot(s))

\* s.rsplit('.', 1)
rsplit(s) == SplitAt(s, LastDot(s))

Cifar    == <<"c","i","f","a","r">>
Imagenet == <<"i","m","a","g","e","n","e","t">>
Sport8   == <<"s","p","o","r","t","8">>
Res      == <<"r","e","s">>
Dense    == <<"d","e","n","s","e">>

ResnetModule ==
    <<"a","r","c","h","a","i",".","c","i","f","a","r","1","0","_","m","o","d","e","l","s",
      ".","r","e","s","n","e","t">>
DensenetModule ==
    <<"a","r","c","h","a","i",".","c","i","f","a","r","1","0","_","m","o","d","e","l","s",
      ".","d","e","n","s","e","n","e","t">>
TorchvisionModule ==
    <<"t","o","r","c","h","v","i","s","i","o","n",".","m","o","d","e","l","s">>

\* the module the evaluater itself lives in: sys.modules[__name__]
ThisModule == <<"a","r","c","h","a","i",".","n","a","s",".","e","v","a","l","u","a","t","e","r">>

----------------------------------------------------------------------------
(* Evaluater._default_module_name, lines 70-83.  Returns the module name   *)
(* or raises NotImplementedError.                                          *)

\* the dense branch tested on the dataset's own prefix only
default_module_no_function_test(ds, fn) ==
    IF StartsWith(ds, Cifar) THEN ResnetModule
    ELSE IF StartsWith(ds, Imagenet) \/ StartsWith(ds, Sport8) THEN TorchvisionModule
    ELSE EmptyStr

\* lines 72-80: the value of module_name when line 81 is reached
default_module(ds, fn) ==
    IF StartsWith(ds, Cifar)
    THEN IF StartsWith(fn, Res) THEN ResnetModule
         ELSE IF StartsWith(fn, Dense) THEN DensenetModule
         ELSE EmptyStr
    ELSE IF StartsWith(ds, Imagenet) \/ StartsWith(ds, Sport8) THEN TorchvisionModule
    ELSE EmptyStr

_default_module_name(ds, fn) ==
    LET m == default_module(ds, fn) IN
    IF m = EmptyStr
    THEN [raised |-> [type |-> "NotImplementedError", cause |-> ""], value |-> EmptyStr]
    ELSE [raised |-> NoException, value |-> m]

----------------------------------------------------------------------------
(* Small decisions of the code, one operator each.                         *)

\* "if explicitly passed in then don't get from conf" tested as "is None"
TakeFromConf_only_none(final_arg) == final_arg = None

\* line 91: if not final_desc_filename
TakeFromConf(final_arg) == ~Truthy(final_arg)

\* every call takes the factory path
UseFactory_always(spec) == TRUE

\* line 98: if model_factory_spec
UseFactory(spec) == spec # EmptyStr

\* the default module also asked for when the module part is empty
NeedsDefault_or_empty(parts) == Len(parts) <= 1 \/ parts[1] = EmptyStr

\* lines 124-127: the else branch of "if len(splitted) > 1"
NeedsDefault(parts) == ~(Len(parts) > 1)

\* the cause wrapped in a construction error
FactoryFailure_wrapped(cause) == [type |-> "ModelConstructionFailed", cause |-> cause]

\* line 131: model = function() is not inside any try block
FactoryFailure(cause) == [type |-> cause, cause |-> ""]

\* a missing attribute passed on as None
GetattrFailure_none(present) == NoException

\* line 130: getattr(module, function_name) without a default
GetattrFailure(present) ==
    IF present THEN NoException ELSE [type |-> "AttributeError", cause |-> ""]

\* line 129: importlib.import_module(module_name)
ImportFailure(present) ==
    IF present THEN NoException ELSE [type |-> "ModuleNotFoundError", cause |-> ""]

\* only the training iterator asserted
DataAssert_train_only(train_dl, test_dl) == train_dl

\* line 64: assert train_dl is not None and test_dl is not None
DataAssert(train_dl, test_dl) == train_dl /\ test_dl

\* the model saved whatever model_filename is
ShouldSaveModel_always(model_filename) == TRUE

\* line 47: if model_filename
ShouldSaveModel(model_filename) == Truthy(model_filename)

\* utils.full_path: the absolute form of a relative file name
full_path(filename) == "/cwd/" \o filename

NoModel == [kind |-> "none", desc |-> 0, droppath |-> FALSE, affine |-> FALSE]

\* a model built with the affine flag off
model_from_desc_no_affine(desc) ==
    [kind |-> "desc", desc |-> desc, droppath |-> TRUE, affine |-> FALSE]

\* lines 140-141: Model(model_desc, droppath=True, affine=True)
model_from_desc(desc) ==
    [kind |-> "desc", desc |-> desc, droppath |-> TRUE, affine |-> TRUE]

\* what function() returns on line 131: an externally constructed network
FactoryModel == [kind |-> "factory", desc |-> 0, droppath |-> FALSE, affine |-> FALSE]

----------------------------------------------------------------------------
(* Architecture descriptions and their files (archai.nas.model_desc).      *)

Descs == 1..MaxDescs
NoDesc == 0

NoFile == <<>>
Serialize(desc) == <<"ModelDesc", desc>>
Loadable(content) == Len(content) = 2 /\ content[1] = "ModelDesc"
Deserialize(content) == content[2]

DescPaths == {"final.yaml", "full.yaml"}
FileContents == {NoFile} \union {Serialize(d) : d \in Descs}

\* ModelDesc.load(filename): the description, or NoDesc when it cannot be loaded
ModelDesc_load(fs, filename) ==
    IF filename \in DescPaths /\ Loadable(fs[filename])
    THEN Deserialize(fs[filename])
    ELSE NoDesc

\* model_desc.save(filename) when the write succeeds
ModelDesc_save(fs, filename, desc) ==
    IF filename \in DescPaths THEN [fs EXCEPT ![filename] = Serialize(desc)] ELSE fs

----------------------------------------------------------------------------
(* Inputs.                                                                 *)

SuffixChars == {"1", "e"}
Suffixes == UNION {[1..k -> SuffixChars] : k \in 0..MaxSuffixLen}

DatasetStems ==
    {Cifar, <<"c","i","f","a">>, Imagenet, <<"i","m","a","g","e">>, Sport8,
     <<"s","p","o","r","t">>, <<"m","n","i","s","t">>, EmptyStr, <<"x">> \o Cifar}
DatasetNames == {s \o t : s \in DatasetStems, t \in Suffixes}

FunctionStems ==
    {Res, <<"r","e">>, Dense, <<"d","e","n","s">>, <<"v","g","g">>, EmptyStr,
     <<"x">> \o Res}
FunctionNames == {s \o t : s \in FunctionStems, t \in Suffixes}

ModuleParts == {EmptyStr, <<"a">>, <<"a",".","b">>, <<"a",".">>, ResnetModule}
FactorySpecs ==
    FunctionNames \union {m \o <<".">> \o f : m \in ModuleParts, f \in FunctionNames}

\* the configurations and arguments of the evaluate / create_model calls
EvalSpecs == {EmptyStr, Res, <<".">> \o Res, <<"a",".","b",".">> \o Res}
EvalDatasets == {Cifar \o <<"1","0">>, <<"m","n","i","s","t">>}
ModelFilenames == {"", "model.pt"}
ConfDescFilenames == {""} \union DescPaths
ArgDescFilenames == {None, ""} \union DescPaths

Configs ==
    [model_factory_spec : EvalSpecs,
     dataset_name : EvalDatasets,
     model_filename : ModelFilenames,
     metric_filename : {"metrics.yaml"},
     final_desc_filename : ConfDescFilenames,
     full_desc_filename : ConfDescFilenames]

NoConfig ==
    [model_factory_spec |-> EmptyStr, dataset_name |-> EmptyStr, model_filename |-> "",
     metric_filename |-> "", final_desc_filename |-> "", full_desc_filename |-> ""]

FactoryFailures == {"RuntimeError", "TypeError"}

----------------------------------------------------------------------------
(* State between calls and at the start of a call.                         *)

NoFunction == [module |-> EmptyStr, name |-> EmptyStr]
NoLoaders == [train_dl |-> FALSE, test_dl |-> FALSE]
UnknownEnv == [module_exists |-> "unknown", has_attr |-> "unknown"]

Call(op, arg) == [op |-> op, arg |-> arg]
Ops == {calls[i].op : i \in 1..Len(calls)}
Called(op) == op \in Ops
CalledWith(op, arg) == \E i \in 1..Len(calls) : calls[i] = Call(op, arg)
Position(op) == CHOOSE i \in 1..Len(calls) : calls[i].op = op

FreshLocals ==
    /\ splitted = <<>>
    /\ function_name = EmptyStr
    /\ module_name = EmptyStr
    /\ module = EmptyStr
    /\ function = NoFunction
    /\ template_model_desc = NoDesc
    /\ model_desc = NoDesc
    /\ model = NoModel
    /\ data_loaders = NoLoaders
    /\ train_metrics = ""
    /\ env = UnknownEnv
    /\ calls = <<>>
    /\ raised = NoException
    /\ result = "none"

Idle ==
    /\ pc = "idle"
    /\ entry = "none"
    /\ conf_eval = NoConfig
    /\ final_desc_filename = None
    /\ full_desc_filename = None
    /\ model_factory_spec = EmptyStr
    /\ dataset_name = EmptyStr
    /\ FreshLocals

Init ==
    /\ Idle
    /\ files \in [DescPaths -> FileContents]

\* an exception leaves the call: no method of the class has a try block
Raise(e) ==
    /\ pc' = "raised"
    /\ raised' = e

\* create_model and model_from_factory return the model to their caller
ReturnModel ==
    IF entry = "evaluate"
    THEN pc' = "checkpoint" /\ result' = result
    ELSE pc' = "done" /\ result' = "model"

----------------------------------------------------------------------------
(* Evaluater.evaluate, lines 29-40: configuration reads, then create_model *)
(* with both file-name parameters left at their default None.              *)

evaluate(conf) ==
    /\ pc = "idle"
    /\ pc' = "create_model"
    /\ entry' = "evaluate"
    /\ conf_eval' = conf
    /\ calls' = <<Call("final_desc_filename=", None), Call("full_desc_filename=", None),
                  Call("conf_eval", "checkpoint"), Call("conf_eval", "resume"),
                  Call("conf_eval", "model_filename"),
                  Call("conf_eval", "metric_filename")>>
    /\ UNCHANGED <<final_desc_filename, full_desc_filename, model_factory_spec,
                   dataset_name, splitted, function_name, module_name, module, function,
                   template_model_desc, model_desc, model, data_loaders, train_metrics,
                   env, files, raised, result>>

CallEvaluate == \E conf \in Configs : evaluate(conf)

\* a caller invoking create_model itself, with or without the two file names
CallCreateModel ==
    \E conf \in Configs, final_arg \in ArgDescFilenames, full_arg \in ArgDescFilenames :
        /\ pc = "idle"
        /\ pc' = "create_model"
        /\ entry' = "create_model"
        /\ conf_eval' = conf
        /\ final_desc_filename' = final_arg
        /\ full_desc_filename' = full_arg
        /\ calls' = <<Call("final_desc_filename=", final_arg),
                      Call("full_desc_filename=", full_arg)>>
        /\ UNCHANGED <<model_factory_spec, dataset_name, splitted, function_name,
                       module_name, module, function, template_model_desc, model_desc,
                       model, data_loaders, train_metrics, env, files, raised, result>>

(* Evaluater.create_model, lines 85-99.                                    *)
create_model ==
    /\ pc = "create_model"
    /\ dataset_name' = conf_eval.dataset_name
    /\ IF TakeFromConf(final_desc_filename)
       THEN /\ final_desc_filename' = conf_eval.final_desc_filename
            /\ full_desc_filename' = conf_eval.full_desc_filename
       ELSE UNCHANGED <<final_desc_filename, full_desc_filename>>
    /\ calls' = calls
           \o <<Call("conf_eval", "loader.dataset.name")>>
           \o (IF TakeFromConf(final_desc_filename)
               THEN <<Call("conf_eval", "final_desc_filename"),
                      Call("conf_eval", "full_desc_filename")>>
               ELSE <<>>)
           \o <<Call("conf_eval", "model_factory_spec"), Call("conf_eval", "model_desc")>>
           \o (IF UseFactory(conf_eval.model_factory_spec)
               THEN <<Call("model_from_factory", "")>>
               ELSE <<>>)
    /\ IF UseFactory(conf_eval.model_factory_spec)
       THEN /\ model_factory_spec' = conf_eval.model_factory_spec
            /\ pc' = "model_from_factory"
       ELSE /\ UNCHANGED model_factory_spec
            /\ pc' = "load_desc"
    /\ UNCHANGED <<entry, conf_eval, splitted, function_name, module_name, module,
                   function, template_model_desc, model_desc, model, data_loaders,
                   train_metrics, env, files, raised, result>>

----------------------------------------------------------------------------
(* Evaluater.model_from_factory, lines 120-138.                            *)

\* lines 121-127
model_from_factory ==
    /\ pc = "model_from_factory"
    /\ LET parts == rsplit(model_factory_spec)
           fn == parts[Len(parts)]
           dflt == _default_module_name(dataset_name, fn)
       IN /\ splitted' = parts
          /\ function_name' = fn
          /\ IF NeedsDefault(parts)
             THEN /\ calls' = calls \o <<Call("_default_module_name", "")>>
                  /\ IF dflt.raised # NoException
                     THEN Raise(dflt.raised) /\ UNCHANGED module_name
                     ELSE /\ module_name' = dflt.value
                          /\ pc' = "import_module"
                          /\ UNCHANGED raised
             ELSE /\ module_name' = parts[1]
                  /\ UNCHANGED calls
                  /\ pc' = "import_module"
                  /\ UNCHANGED raised
    /\ UNCHANGED <<entry, conf_eval, final_desc_filename, full_desc_filename,
                   model_factory_spec, dataset_name, module, function,
                   template_model_desc, model_desc, model, data_loaders, train_metrics,
                   env, files, result>>

\* line 129
import_module ==
    /\ pc = "import_module"
    /\ IF module_name # EmptyStr
       THEN \E present \in BOOLEAN :
               /\ env' = [env EXCEPT !.module_exists = IF present THEN "yes" ELSE "no"]
               /\ calls' = calls \o <<Call("importlib.import_module", "")>>
               /\ IF ImportFailure(present) # NoException
                  THEN Raise(ImportFailure(present)) /\ UNCHANGED module
                  ELSE module' = module_name /\ pc' = "getattr" /\ UNCHANGED raised
       ELSE /\ module' = ThisModule
            /\ pc' = "getattr"
            /\ UNCHANGED <<env, calls, raised>>
    /\ UNCHANGED <<entry, conf_eval, final_desc_filename, full_desc_filename,
                   model_factory_spec, dataset_name, splitted, function_name, module_name,
                   function, template_model_desc, model_desc, model, data_loaders,
                   train_metrics, files, result>>

\* line 130
getattr ==
    /\ pc = "getattr"
    /\ \E present \in BOOLEAN :
          /\ env' = [env EXCEPT !.has_attr = IF present THEN "yes" ELSE "no"]
          /\ calls' = calls \o <<Call("getattr", "")>>
          /\ IF GetattrFailure(present) # NoException
             THEN Raise(GetattrFailure(present)) /\ UNCHANGED function
             ELSE /\ function' = [module |-> module, name |-> function_name]
                  /\ pc' = "call_function"
                  /\ UNCHANGED raised
    /\ UNCHANGED <<entry, conf_eval, final_desc_filename, full_desc_filename,
                   model_factory_spec, dataset_name, splitted, function_name, module_name,
                   module, template_model_desc, model_desc, model, data_loaders,
                   train_metrics, files, result>>

\* line 131
call_function ==
    /\ pc = "call_function"
    /\ calls' = calls \o <<Call("function()", "")>>
    /\ \/ /\ model' = FactoryModel
          /\ pc' = "log_factory"
          /\ UNCHANGED raised
       \/ \E cause \in FactoryFailures :
             /\ Raise(FactoryFailure(cause))
             /\ UNCHANGED model
    /\ UNCHANGED <<entry, conf_eval, final_desc_filename, full_desc_filename,
                   model_factory_spec, dataset_name, splitted, function_name, module_name,
                   module, function, template_model_desc, model_desc, data_loaders,
                   train_metrics, env, files, result>>

\* lines 133-138, and the return on line 99
log_factory ==
    /\ pc = "log_factory"
    /\ calls' = calls \o <<Call("ml_utils.param_size", ""),
                           Call("logger.info", "model_factory")>>
    /\ ReturnModel
    /\ UNCHANGED <<entry, conf_eval, final_desc_filename, full_desc_filename,
                   model_factory_spec, dataset_name, splitted, function_name, module_name,
                   module, function, template_model_desc, model_desc, model, data_loaders,
                   train_metrics, env, files, raised>>

----------------------------------------------------------------------------
(* Evaluater.create_model, lines 100-118: the description-based branch.    *)

\* line 102: ModelDesc.load(final_desc_filename)
load_desc ==
    /\ pc = "load_desc"
    /\ calls' = calls \o <<Call("ModelDesc.load", final_desc_filename)>>
    /\ LET loaded == ModelDesc_load(files, final_desc_filename)
       IN IF loaded = NoDesc
          THEN /\ Raise([type |-> "DescriptionLoadError", cause |-> ""])
               /\ UNCHANGED template_model_desc
          ELSE /\ template_model_desc' = loaded
               /\ pc' = "build_desc"
               /\ UNCHANGED raised
    /\ UNCHANGED <<entry, conf_eval, final_desc_filename, full_desc_filename,
                   model_factory_spec, dataset_name, splitted, function_name, module_name,
                   module, function, model_desc, model, data_loaders, train_metrics, env,
                   files, result>>

\* lines 103-104: the builder collaborator returns some final description
build_desc ==
    /\ pc = "build_desc"
    /\ calls' = calls \o <<Call("model_desc_builder.build", "")>>
    /\ \E built \in Descs : model_desc' = built
    /\ pc' = "save_desc"
    /\ UNCHANGED <<entry, conf_eval, final_desc_filename, full_desc_filename,
                   model_factory_spec, dataset_name, splitted, function_name, module_name,
                   module, function, template_model_desc, model, data_loaders,
                   train_metrics, env, files, raised, result>>

\* line 107: model_desc.save(full_desc_filename); the write succeeds or fails
save_desc ==
    /\ pc = "save_desc"
    /\ calls' = calls \o <<Call("model_desc.save", full_desc_filename)>>
    /\ \/ /\ files' = ModelDesc_save(files, full_desc_filename, model_desc)
          /\ pc' = "model_from_desc"
          /\ UNCHANGED raised
       \/ /\ Raise([type |-> "IOFailure", cause |-> ""])
          /\ UNCHANGED files
    /\ UNCHANGED <<entry, conf_eval, final_desc_filename, full_desc_filename,
                   model_factory_spec, dataset_name, splitted, function_name, module_name,
                   module, function, template_model_desc, model_desc, model, data_loaders,
                   train_metrics, env, result>>

\* line 109, and lines 111-118: the log record and the return
create_model_from_desc ==
    /\ pc = "model_from_desc"
    /\ model' = model_from_desc(model_desc)
    /\ calls' = calls \o <<Call("Model", ""), Call("logger.info", "model_desc")>>
    /\ ReturnModel
    /\ UNCHANGED <<entry, conf_eval, final_desc_filename, full_desc_filename,
                   model_factory_spec, dataset_name, splitted, function_name, module_name,
                   module, function, template_model_desc, model_desc, data_loaders,
                   train_metrics, env, files, raised>>

----------------------------------------------------------------------------
(* Evaluater.evaluate, lines 42-55, and Evaluater.train_model, lines 57-68 *)

\* line 42: nas_utils.create_checkpoint(conf_checkpoint, resume)
create_checkpoint ==
    /\ pc = "checkpoint"
    /\ calls' = calls \o <<Call("nas_utils.create_checkpoint", "")>>
    /\ \/ pc' = "get_data" /\ UNCHANGED raised
       \/ Raise([type |-> "CheckpointError", cause |-> ""])
    /\ UNCHANGED <<entry, conf_eval, final_desc_filename, full_desc_filename,
                   model_factory_spec, dataset_name, splitted, function_name, module_name,
                   module, function, template_model_desc, model_desc, model, data_loaders,
                   train_metrics, env, files, result>>

\* lines 59-64: data.get_data and the assertion on its result
get_data ==
    /\ pc = "get_data"
    /\ calls' = calls \o <<Call("conf_train", "loader"), Call("conf_train", "trainer"),
                           Call("data.get_data", "")>>
    /\ \E train_dl \in BOOLEAN, test_dl \in BOOLEAN :
          /\ data_loaders' = [train_dl |-> train_dl, test_dl |-> test_dl]
          /\ IF DataAssert(train_dl, test_dl)
             THEN pc' = "trainer" /\ UNCHANGED raised
             ELSE Raise([type |-> "AssertionError", cause |-> ""])
    /\ UNCHANGED <<entry, conf_eval, final_desc_filename, full_desc_filename,
                   model_factory_spec, dataset_name, splitted, function_name, module_name,
                   module, function, template_model_desc, model_desc, model,
                   train_metrics, env, files, result>>

\* lines 66-68: Trainer(conf_train, model, checkpoint).fit(train_dl, test_dl)
train_model ==
    /\ pc = "trainer"
    /\ calls' = calls \o <<Call("Trainer", ""), Call("trainer.fit", "")>>
    /\ \/ /\ train_metrics' = "Metrics"
          /\ pc' = "save_metrics"
          /\ UNCHANGED raised
       \/ /\ Raise([type |-> "TrainingError", cause |-> ""])
          /\ UNCHANGED train_metrics
    /\ UNCHANGED <<entry, conf_eval, final_desc_filename, full_desc_filename,
                   model_factory_spec, dataset_name, splitted, function_name, module_name,
                   module, function, template_model_desc, model_desc, model, data_loaders,
                   env, files, result>>

\* line 44: train_metrics.save(metric_filename)
save_metrics ==
    /\ pc = "save_metrics"
    /\ calls' = calls \o <<Call("train_metrics.save", conf_eval.metric_filename)>>
    /\ \/ pc' = "save_model" /\ UNCHANGED raised
       \/ Raise([type |-> "IOFailure", cause |-> ""])
    /\ UNCHANGED <<entry, conf_eval, final_desc_filename, full_desc_filename,
                   model_factory_spec, dataset_name, splitted, function_name, module_name,
                   module, function, template_model_desc, model_desc, model, data_loaders,
                   train_metrics, env, files, result>>

\* lines 47-49
save_model ==
    /\ pc = "save_model"
    /\ IF ShouldSaveModel(conf_eval.model_filename)
       THEN /\ calls' = calls \o <<Call("ml_utils.save_model",
                                        full_path(conf_eval.model_filename))>>
            /\ \/ pc' = "log_save_path" /\ UNCHANGED raised
               \/ Raise([type |-> "IOFailure", cause |-> ""])
       ELSE /\ pc' = "log_save_path"
            /\ UNCHANGED <<calls, raised>>
    /\ UNCHANGED <<entry, conf_eval, final_desc_filename, full_desc_filename,
                   model_factory_spec, dataset_name, splitted, function_name, module_name,
                   module, function, template_model_desc, model_desc, model, data_loaders,
                   train_metrics, env, files, result>>

\* lines 51-55
log_save_path ==
    /\ pc = "log_save_path"
    /\ calls' = calls \o <<Call("logger.info", "model_save_path")>>
    /\ result' = "metrics"
    /\ pc' = "done"
    /\ UNCHANGED <<entry, conf_eval, final_desc_filename, full_desc_filename,
                   model_factory_spec, dataset_name, splitted, function_name, module_name,
                   module, function, template_model_desc, model_desc, model, data_loaders,
                   train_metrics, env, files, raised>>

\* the call is over (returned or raised); the caller may make another one
Finish ==
    /\ pc \in {"done", "raised"}
    /\ pc' = "idle"
    /\ entry' = "none"
    /\ conf_eval' = NoConfig
    /\ final_desc_filename' = None
    /\ full_desc_filename' = None
    /\ model_factory_spec' = EmptyStr
    /\ dataset_name' = EmptyStr
    /\ splitted' = <<>>
    /\ function_name' = EmptyStr
    /\ module_name' = EmptyStr
    /\ module' = EmptyStr
    /\ function' = NoFunction
    /\ template_model_desc' = NoDesc
    /\ model_desc' = NoDesc
    /\ model' = NoModel
    /\ data_loaders' = NoLoaders
    /\ train_metrics' = ""
    /\ env' = UnknownEnv
    /\ calls' = <<>>
    /\ raised' = NoException
    /\ result' = "none"
    /\ UNCHANGED files

Next ==
    \/ CallEvaluate
    \/ CallCreateModel
    \/ create_model
    \/ model_from_factory
    \/ import_module
    \/ getattr
    \/ call_function
    \/ log_factory
    \/ load_desc
    \/ build_desc
    \/ save_desc
    \/ create_model_from_desc
    \/ create_checkpoint
    \/ get_data
    \/ train_model
    \/ save_metrics
    \/ save_model
    \/ log_save_path
    \/ Finish

Spec == Init /\ [][Next]_vars

----------------------------------------------------------------------------
(* The name-resolution functions on their own: model_from_factory and      *)
(* _default_module_name applied to every factory spec, dataset name and    *)
(* function name of the input sets.                                        *)

InitResolver ==
    /\ entry \in {"model_from_factory", "_default_module_name"}
    /\ conf_eval = NoConfig
    /\ final_desc_filename = None
    /\ full_desc_filename = None
    /\ dataset_name \in DatasetNames
    /\ IF entry = "model_from_factory"
       THEN /\ pc = "model_from_factory"
            /\ model_factory_spec \in FactorySpecs
            /\ function_name = EmptyStr
       ELSE /\ pc = "_default_module_name"
            /\ model_factory_spec = EmptyStr
            /\ function_name \in FunctionNames
    /\ splitted = <<>>
    /\ module_name = EmptyStr
    /\ module = EmptyStr
    /\ function = NoFunction
    /\ template_model_desc = NoDesc
    /\ model_desc = NoDesc
    /\ model = NoModel
    /\ data_loaders = NoLoaders
    /\ train_metrics = ""
    /\ env = UnknownEnv
    /\ calls = IF entry = "model_from_factory"
               THEN <<Call("model_from_factory", "")>>
               ELSE <<>>
    /\ raised = NoException
    /\ result = "none"
    /\ files = [p \in DescPaths |-> NoFile]

\* a direct call of _default_module_name(dataset_name, function_name)
call_default_module_name ==
    /\ pc = "_default_module_name"
    /\ LET dflt == _default_module_name(dataset_name, function_name)
       IN /\ calls' = calls \o <<Call("_default_module_name", "")>>
          /\ IF dflt.raised # NoException
             THEN Raise(dflt.raised) /\ UNCHANGED <<module_name, result>>
             ELSE /\ module_name' = dflt.value
                  /\ pc' = "done"
                  /\ result' = "module_name"
                  /\ UNCHANGED raised
    /\ UNCHANGED <<entry, conf_eval, final_desc_filename, full_desc_filename,
                   model_factory_spec, dataset_name, splitted, function_name, module,
                   function, template_model_desc, model_desc, model, data_loaders,
                   train_metrics, env, files>>

NextResolver ==
    \/ call_default_module_name
    \/ model_from_factory
    \/ import_module
    \/ getattr
    \/ call_function
    \/ log_factory

SpecResolver == InitResolver /\ [][NextResolver]_vars

----------------------------------------------------------------------------
(* Properties.                                                             *)

ArgOf(op) == calls[Position(op)].arg
LastOp == IF calls = <<>> THEN "" ELSE calls[Len(calls)].op
HasDot(s) == \E i \in 1..Len(s) : s[i] = "."

FactoryOps ==
    {"model_from_factory", "_default_module_name", "importlib.import_module", "getattr",
     "function()", "ml_utils.param_size"}
DescOps == {"ModelDesc.load", "model_desc_builder.build", "model_desc.save", "Model"}

\* create_model has passed its branch on line 98
Branched == entry \in {"evaluate", "create_model"} /\ pc \notin {"idle", "create_model"}
FactoryPath == Called("model_from_factory")
DescPath == pc = "load_desc" \/ Called("ModelDesc.load")

\* C1: once create_model has branched, exactly one of the factory path and the
\* description path has been taken; it is the factory path exactly when
\* conf_eval['model_factory_spec'] is non-empty; on the factory path no description
\* is loaded, built, saved or wrapped in a Model, and on the description path no
\* default module is looked up, no module imported, no attribute fetched and no
\* factory function called.
C1_ExactlyOnePath ==
    Branched =>
        /\ FactoryPath # DescPath
        /\ FactoryPath <=> conf_eval.model_factory_spec # EmptyStr
        /\ FactoryPath =>
              /\ Ops \cap DescOps = {}
              /\ template_model_desc = NoDesc
              /\ model_desc = NoDesc
              /\ model.kind # "desc"
        /\ DescPath =>
              /\ Ops \cap FactoryOps = {}
              /\ function = NoFunction
              /\ module = EmptyStr
              /\ model.kind # "factory"

C1_Witness ==
    /\ entry = "evaluate"
    /\ pc = "done"
    /\ FactoryPath
    /\ model.kind = "factory"
    /\ conf_eval.model_factory_spec = <<"a",".","b",".">> \o Res

\* C2: in evaluate, once training has returned metrics and line 44 has run,
\* train_metrics.save(metric_filename) has been called, whatever model_filename is;
\* ml_utils.save_model is called only with a non-empty model_filename, on the
\* full_path of it, and only after the metrics save; a call that gets past line 49
\* has saved the model exactly when model_filename is non-empty, and with an empty
\* model_filename the write is skipped and the call returns.
C2_MetricsAlwaysModelOptional ==
    entry = "evaluate" =>
        /\ (train_metrics = "Metrics" /\ pc # "save_metrics")
              => CalledWith("train_metrics.save", conf_eval.metric_filename)
        /\ Called("ml_utils.save_model") =>
              /\ conf_eval.model_filename # ""
              /\ ArgOf("ml_utils.save_model") = full_path(conf_eval.model_filename)
              /\ Called("train_metrics.save")
              /\ Position("train_metrics.save") < Position("ml_utils.save_model")
        /\ pc \in {"log_save_path", "done"} =>
              (Called("ml_utils.save_model") <=> conf_eval.model_filename # "")
        /\ (pc = "raised" /\ conf_eval.model_filename = "" /\ train_metrics = "Metrics")
              => LastOp = "train_metrics.save"

C2_Witness ==
    /\ entry = "evaluate"
    /\ pc = "done"
    /\ conf_eval.model_filename = ""
    /\ Called("train_metrics.save")
    /\ ~Called("ml_utils.save_model")

\* the ordered first-match policy of the default module, <<>> standing for
\* "fails with UnsupportedConfiguration" (NotImplementedError in the code)
C3_Policy(ds, fn) ==
    CASE StartsWith(ds, Cifar) /\ StartsWith(fn, Res) -> ResnetModule
      [] StartsWith(ds, Cifar) /\ ~StartsWith(fn, Res) /\ StartsWith(fn, Dense)
            -> DensenetModule
      [] StartsWith(ds, Cifar) /\ ~StartsWith(fn, Res) /\ ~StartsWith(fn, Dense)
            -> EmptyStr
      [] ~StartsWith(ds, Cifar) /\ (StartsWith(ds, Imagenet) \/ StartsWith(ds, Sport8))
            -> TorchvisionModule
      [] OTHER -> EmptyStr

\* C3: whenever _default_module_name(dataset_name, function_name) has been called,
\* directly or from model_from_factory, its outcome is the one the first-match
\* policy gives: the policy's module name, which is never empty, or
\* NotImplementedError where the policy has no module.
C3_DefaultModulePolicy ==
    Called("_default_module_name") =>
        IF C3_Policy(dataset_name, function_name) = EmptyStr
        THEN /\ pc = "raised"
             /\ raised.type = "NotImplementedError"
             /\ module_name = EmptyStr
        ELSE /\ module_name = C3_Policy(dataset_name, function_name)
             /\ module_name # EmptyStr
             /\ raised.type # "NotImplementedError"

C3_Witness ==
    /\ entry = "_default_module_name"
    /\ pc = "done"
    /\ dataset_name = Cifar \o <<"1">>
    /\ function_name = Dense \o <<"e">>
    /\ module_name = DensenetModule

\* model_from_factory has run lines 121-127
Resolved == Called("model_from_factory") /\ pc # "model_from_factory"
NotImplemented == pc = "raised" /\ raised.type = "NotImplementedError"
\* the part of the spec before its last '.' is empty: the only '.' is the first character
LeadingDotOnly(s) ==
    /\ s # EmptyStr
    /\ s[1] = "."
    /\ \A i \in 2..Len(s) : s[i] # "."

\* C4 as stated: every factory spec whose module part is empty, with or without a
\* '.', gets its module from _default_module_name and from nowhere else.
C4_Original ==
    (Resolved /\ (~HasDot(model_factory_spec) \/ LeadingDotOnly(model_factory_spec))) =>
        /\ Called("_default_module_name")
        /\ module # ThisModule

\* C4 amended: a factory spec with no '.' gets its module from
\* _default_module_name(dataset_name, function_name), with the whole spec as the
\* function name, and that module is the one imported; a spec whose only '.' is its
\* first character has an empty module part too, but for it _default_module_name is
\* not called and nothing is imported: the function is looked up in the evaluater's
\* own module.
C4_DefaultOnlyWithoutDot ==
    Resolved =>
        /\ ~HasDot(model_factory_spec) =>
              /\ Called("_default_module_name")
              /\ function_name = model_factory_spec
              /\ ~NotImplemented =>
                    /\ module_name = default_module(dataset_name, model_factory_spec)
                    /\ module \in {EmptyStr, module_name}
        /\ LeadingDotOnly(model_factory_spec) =>
              /\ ~Called("_default_module_name")
              /\ ~Called("importlib.import_module")
              /\ module_name = EmptyStr
              /\ module \in {EmptyStr, ThisModule}
              /\ pc \notin {"model_from_factory", "import_module"} => module = ThisModule
        /\ Called("_default_module_name") => ~HasDot(model_factory_spec)

C4_Witness ==
    /\ Resolved
    /\ model_factory_spec = <<".">> \o Res
    /\ dataset_name = Cifar
    /\ module = ThisModule
    /\ pc = "done"

\* C5: for a factory spec containing a '.', module_name and function_name are the
\* spec cut at its last '.': module_name, a '.', function_name make up the spec and
\* function_name holds no '.'; _default_module_name is not called, so the dataset
\* name has no part in the module.
C5_SplitOnLastDot ==
    (Resolved /\ HasDot(model_factory_spec)) =>
        /\ Len(splitted) = 2
        /\ module_name = splitted[1]
        /\ function_name = splitted[2]
        /\ module_name \o <<".">> \o function_name = model_factory_spec
        /\ ~HasDot(function_name)
        /\ ~Called("_default_module_name")
        /\ ~NotImplemented

C5_Witness ==
    /\ Resolved
    /\ model_factory_spec = <<"a",".","b",".">> \o Res
    /\ module_name = <<"a",".","b">>
    /\ function_name = Res
    /\ dataset_name = Cifar
    /\ module = <<"a",".","b">>

FactoryCallFailed == pc = "raised" /\ LastOp = "function()"

\* C7 as stated: a failure of the factory function reaches the caller as a
\* ModelConstructionFailed error wrapping the original failure.
C7_Original ==
    FactoryCallFailed =>
        /\ raised.type = "ModelConstructionFailed"
        /\ raised.cause \in FactoryFailures

\* C7 amended: a failure raised while the zero-argument factory function runs
\* reaches the caller as it is: the caller's top-level error is the original
\* failure itself, wrapped in nothing, and no model is returned or logged.
C7_FailurePropagatesUnwrapped ==
    FactoryCallFailed =>
        /\ raised.type \in FactoryFailures
        /\ raised.cause = ""
        /\ model = NoModel
        /\ result = "none"
        /\ ~Called("ml_utils.param_size")

C7_Witness ==
    /\ FactoryCallFailed
    /\ entry = "model_from_factory"
    /\ raised.type = "TypeError"
    /\ function.name = Res

NoModelProduced ==
    /\ ~Called("function()")
    /\ model = NoModel
    /\ result = "none"
    /\ ~Called("ml_utils.param_size")
    /\ ~CalledWith("logger.info", "model_factory")

\* C8: when the resolved module cannot be imported the call ends with
\* ModuleNotFoundError, and when the module is there but has no attribute named
\* function_name it ends with AttributeError; either way the factory function was
\* not called, no model exists or is returned, and the model_factory record was not
\* logged.
C8_MissingModuleOrFunction ==
    Called("model_from_factory") =>
        /\ env.module_exists = "no" =>
              /\ pc = "raised"
              /\ raised.type = "ModuleNotFoundError"
              /\ module = EmptyStr
              /\ ~Called("getattr")
              /\ NoModelProduced
        /\ env.has_attr = "no" =>
              /\ pc = "raised"
              /\ raised.type = "AttributeError"
              /\ module # EmptyStr
              /\ env.module_exists # "no"
              /\ function = NoFunction
              /\ NoModelProduced

C8_Witness ==
    /\ entry = "model_from_factory"
    /\ env.module_exists = "yes"
    /\ env.has_attr = "no"
    /\ raised.type = "AttributeError"
    /\ module = ResnetModule

\* the steps of evaluate, numbered in the order of lines 40-49; 0 for the
\* configuration reads and log records
Stage(op) ==
    CASE op \in FactoryOps \union DescOps -> 1
      [] op = "nas_utils.create_checkpoint" -> 2
      [] op = "data.get_data" -> 3
      [] op = "Trainer" -> 4
      [] op = "trainer.fit" -> 5
      [] op = "train_metrics.save" -> 6
      [] op = "ml_utils.save_model" -> 7
      [] OTHER -> 0
Steps == {i \in 1..Len(calls) : Stage(calls[i].op) > 0}

\* the step an exception of each type comes out of
FailingOps(type) ==
    CASE type = "NotImplementedError" -> {"_default_module_name"}
      [] type = "ModuleNotFoundError" -> {"importlib.import_module"}
      [] type = "AttributeError" -> {"getattr"}
      [] type \in FactoryFailures -> {"function()"}
      [] type = "DescriptionLoadError" -> {"ModelDesc.load"}
      [] type = "IOFailure" -> {"model_desc.save", "train_metrics.save", "ml_utils.save_model"}
      [] type = "CheckpointError" -> {"nas_utils.create_checkpoint"}
      [] type = "AssertionError" -> {"data.get_data"}
      [] type = "TrainingError" -> {"trainer.fit"}
      [] OTHER -> {}

\* C9: evaluate makes its steps in the order model, checkpoint, data, trainer and
\* fit, metrics save, model save, each at most once; an exception ends the call at
\* the step that raised it, as that step raised it, and nothing runs after it: no
\* checkpoint without a model, no Trainer unless both iterators are there, no
\* metrics or model file unless fit returned metrics.
C9_FixedOrderNoRecovery ==
    entry = "evaluate" =>
        /\ \A i, j \in Steps : i < j =>
              /\ Stage(calls[i].op) <= Stage(calls[j].op)
              /\ calls[i].op # calls[j].op
        /\ model = NoModel => \A i \in Steps : Stage(calls[i].op) = 1
        /\ Called("nas_utils.create_checkpoint") => model # NoModel
        /\ Called("data.get_data") => Called("nas_utils.create_checkpoint")
        /\ Called("Trainer") =>
              /\ Called("data.get_data")
              /\ data_loaders.train_dl
              /\ data_loaders.test_dl
        /\ (Called("data.get_data") /\ ~(data_loaders.train_dl /\ data_loaders.test_dl)) =>
              /\ pc = "raised"
              /\ raised.type = "AssertionError"
        /\ (Called("trainer.fit") /\ train_metrics = "") =>
              /\ pc = "raised"
              /\ raised.type = "TrainingError"
        /\ train_metrics = "" =>
              /\ ~Called("train_metrics.save")
              /\ ~Called("ml_utils.save_model")
        /\ pc = "raised" =>
              /\ raised.cause = ""
              /\ LastOp \in FailingOps(raised.type)
              /\ result = "none"
        /\ pc = "done" =>
              /\ raised = NoException
              /\ result = "metrics"
              /\ train_metrics = "Metrics"

C9_Witness ==
    /\ entry = "evaluate"
    /\ pc = "raised"
    /\ raised.type = "AssertionError"
    /\ data_loaders.train_dl
    /\ ~data_loaders.test_dl
    /\ model # NoModel

ConfRead(key) == CalledWith("conf_eval", key)
FinalArg == ArgOf("final_desc_filename=")
FullArg == ArgOf("full_desc_filename=")

====
